---- MODULE Spec2Model ----
(***************************************************************************)
(* Model of the Trade Marks Journal extractor (src/app.py): the four line  *)
(* scanners, process_page, the thread-pool merge and final sort of         *)
(* process_pdf, and the steps of main that consume its result.             *)
(*                                                                         *)
(* Text is modelled at word granularity.  A line is a sequence of words,   *)
(* a word is a record [k, d]: k is the kind of the word ("num" for a run   *)
(* of digits, "date" for dd/mm/yyyy, one kind per marker phrase, ...) and  *)
(* d is the digit string of a number word, a sequence of characters, so    *)
(* that "012345" and "12345" are different tokens with the same int()      *)
(* value.  The characters 0..9 are the decimal digits; 10..19 stand for    *)
(* the characters, such as the superscript digits, that str.isdigit()      *)
(* accepts and that neither \d nor int() does.                             *)
(***************************************************************************)
EXTENDS Integers, Sequences, FiniteSets, TLC

VARIABLES key_phrase, digit_length, pdf, pc, futures, merged, results, ret,
          errors, tabs, excel

vars == <<key_phrase, digit_length, pdf, pc, futures, merged, results, ret,
          errors, tabs, excel>>

(* ------------------------------ bounds -------------------------------- *)

MaxLines == 3

MaxPages == 2

MaxDigitLength == 6

MaxAdv == 2

MaxCorr == 2

(* ------------------------- program constants -------------------------- *)

MinDigits == 5

RCColumns == 5

MinDigitLength == 1

DefaultDigitLength == 5

Categories == {"Advertisement", "Corrigenda", "RC", "Renewal"}

\* The literal phrases the scanners look for, as sequences of word kinds.
CORRIGENDA == <<"CORRIGENDA">>

RegisteredPhrase == <<"Registered">>

RenewedPhrase == <<"Renewed">>

DefaultKeyPhrase == <<"Renewed", "TenYears">>

\* The characters of the class that follows the number in the Corrigenda
\* pattern: the hyphen and the five characters the source file holds after it.
DashClass == {"hyphen", "low9quote", "Adiaeresis", "igrave", "icircumflex"}

(* ------------------------------- text --------------------------------- *)

W(k) == [k |-> k, d |-> <<>>]

Num(d) == [k |-> "num", d |-> d]

NumX(d) == [k |-> "numx", d |-> d]

\* A column that is one superscript two.
Sup == [k |-> "sup", d |-> <<12>>]

DecimalDigits == 0..9

DigitChars == 0..19

Range(s) == {s[i] : i \in DOMAIN s}

\* Python's  phrase in line : the phrase occurs as a contiguous run of the
\* line; the empty phrase occurs in every line.
Occurs(phrase, kinds) ==
  \E i \in 0..(Len(kinds) - Len(phrase)) :
    \A j \in 1..Len(phrase) : kinds[i + j] = phrase[j]

PhraseIn(phrase, line) == Occurs(phrase, [i \in DOMAIN line |-> line[i].k])

\* text.split("\n"): the empty text is one empty line.
SplitLines(text) == IF text = <<>> THEN << <<>> >> ELSE text

\* The digit strings at the positions I of a line, left to right: the list
\* re.findall and finditer give for the positions where the pattern matches.
MatchSeq(line, I) ==
  LET F[i \in 0..Len(line)] ==
        IF i = 0 THEN <<>>
        ELSE IF i \in I THEN Append(F[i - 1], line[i].d) ELSE F[i - 1]
  IN F[Len(line)]

\* str.isdigit() on a token.
IsDigit(d) == d # <<>> /\ \A i \in DOMAIN d : d[i] \in DigitChars

\* int(d) raises ValueError: d holds a character that is no decimal digit.
IntRaises(d) == \E i \in DOMAIN d : d[i] \notin DecimalDigits

\* int() of a string of decimal digits.
RECURSIVE ToInt(_)
ToInt(d) == IF d = <<>> THEN 0 ELSE 10 * ToInt(SubSeq(d, 1, Len(d) - 1)) + d[Len(d)]

\* list(dict.fromkeys(numbers)): first occurrences, in order.
RECURSIVE Dedup(_)
Dedup(s) ==
  IF s = <<>> THEN <<>>
  ELSE LET r == Dedup(SubSeq(s, 1, Len(s) - 1))
       IN IF s[Len(s)] \in Range(r) THEN r ELSE Append(r, s[Len(s)])

\* list(set(numbers)): the elements once each, in an order the hash decides.
RECURSIVE ListOfSet(_)
ListOfSet(S) ==
  IF S = {} THEN {<<>>}
  ELSE UNION {{<<x>> \o s : s \in ListOfSet(S \ {x})} : x \in S}

(* ----------------------------- scanners ------------------------------- *)
\* Every scanner returns its hits, [line, tok], in the order the code appends
\* them; the numbers it returns are the tok fields.

Hits(i, toks) == [j \in 1..Len(toks) |-> [line |-> i, tok |-> toks[j]]]

Toks(hits) == [j \in 1..Len(hits) |-> hits[j].tok]

LinesOf(hits) == {hits[j].line : j \in DOMAIN hits}

\* re.findall(r'(\d{5,})\s+\d{2}/\d{2}/\d{4}', line)
AdvMatches(line) ==
  MatchSeq(line, {i \in DOMAIN line : /\ line[i].k = "num"
                            /\ Len(line[i].d) >= MinDigits
                            /\ i < Len(line)
                            /\ line[i + 1].k = "date"})

\* re.findall(r'(\d{5,})\s*[-...]', line)
CorrMatches(line) ==
  MatchSeq(line, {i \in DOMAIN line : /\ line[i].k = "num"
                            /\ Len(line[i].d) >= MinDigits
                            /\ i < Len(line)
                            /\ line[i + 1].k \in DashClass})

\* A faulty variant of the test below: any() for all(), and no column count.
IsRCRow_anyNumber(line) == \E i \in DOMAIN line : line[i].k = "num"

\* len(columns) == 5 and all(col.isdigit() for col in columns); a line with a
\* word that is not a number fails the second test whatever its column count.
IsRCRow(line) ==
  /\ Len(line) = RCColumns
  /\ \A i \in DOMAIN line : line[i].k \in {"num", "sup"} /\ IsDigit(line[i].d)

\* lambda x: len(x) >= digit_length and x.isdigit()
Valid(x, dl) == Len(x) >= dl /\ IsDigit(x)

\* extract_numbers(line, r'\b(\d{5,})\b', validation)
BareMatches(line, dl) ==
  Dedup(MatchSeq(line, {i \in DOMAIN line : /\ line[i].k = "num"
                                  /\ Len(line[i].d) >= MinDigits
                                  /\ Valid(line[i].d, dl)}))

\* extract_numbers(line, r'Application No\s+(\d{5,})', validation)
AppNoMatches(line, dl) ==
  Dedup(MatchSeq(line, {i \in DOMAIN line : /\ line[i].k \in {"num", "numx"}
                                  /\ Len(line[i].d) >= MinDigits
                                  /\ i > 1
                                  /\ line[i - 1].k = "ApplicationNo"
                                  /\ Valid(line[i].d, dl)}))

\* The value of found_corrigenda_section before the first line.
found_corrigenda_section0 == FALSE

\* A faulty variant of the initial value below: the flag is a global that
\* stays set once a processed page held the key phrase.
found_renewal_carried ==
  \E q \in DOMAIN futures :
    /\ futures[q].st = "done"
    /\ pdf.pages[q].x = "text"
    /\ \E i \in DOMAIN pdf.pages[q].text : PhraseIn(key_phrase, pdf.pages[q].text[i])

\* The value of found_renewal_section before the first line.
found_renewal_section0 == FALSE

RECURSIVE AdvScan(_, _, _)
AdvScan(lines, i, acc) ==
  IF i > Len(lines) THEN acc
  ELSE IF PhraseIn(CORRIGENDA, lines[i]) THEN acc
  ELSE AdvScan(lines, i + 1, acc \o Hits(i, AdvMatches(lines[i])))

\* A faulty variant of the scan below: the CORRIGENDA line is skipped but the
\* flag is never set.
RECURSIVE CorrScan_flagNeverSet(_, _, _, _)
CorrScan_flagNeverSet(lines, i, found, acc) ==
  IF i > Len(lines) THEN acc
  ELSE IF PhraseIn(CORRIGENDA, lines[i]) THEN CorrScan_flagNeverSet(lines, i + 1, found, acc)
  ELSE IF PhraseIn(RegisteredPhrase, lines[i]) THEN acc
  ELSE IF found
       THEN CorrScan_flagNeverSet(lines, i + 1, found, acc \o Hits(i, CorrMatches(lines[i])))
  ELSE CorrScan_flagNeverSet(lines, i + 1, found, acc)

RECURSIVE CorrScan(_, _, _, _)
CorrScan(lines, i, found, acc) ==
  IF i > Len(lines) THEN acc
  ELSE IF PhraseIn(CORRIGENDA, lines[i]) THEN CorrScan(lines, i + 1, TRUE, acc)
  ELSE IF PhraseIn(RegisteredPhrase, lines[i]) THEN acc
  ELSE IF found THEN CorrScan(lines, i + 1, found, acc \o Hits(i, CorrMatches(lines[i])))
  ELSE CorrScan(lines, i + 1, found, acc)

RECURSIVE RCScan(_, _, _)
RCScan(lines, i, acc) ==
  IF i > Len(lines) THEN acc
  ELSE IF PhraseIn(RenewedPhrase, lines[i]) THEN acc
  ELSE IF IsRCRow(lines[i])
       THEN RCScan(lines, i + 1, acc \o Hits(i, [j \in 1..Len(lines[i]) |-> lines[i][j].d]))
  ELSE RCScan(lines, i + 1, acc)

RECURSIVE RenewalScan(_, _, _, _, _, _)
RenewalScan(lines, key, dl, i, found, acc) ==
  IF i > Len(lines) THEN acc
  ELSE LET f == found \/ PhraseIn(key, lines[i])
       IN IF f THEN RenewalScan(lines, key, dl, i + 1, f,
                      acc \o Hits(i, BareMatches(lines[i], dl))
                          \o Hits(i, AppNoMatches(lines[i], dl)))
          ELSE RenewalScan(lines, key, dl, i + 1, f, acc)

AdvHits(text) == AdvScan(SplitLines(text), 1, <<>>)

CorrHits(text) == CorrScan(SplitLines(text), 1, found_corrigenda_section0, <<>>)

RCHits(text) == RCScan(SplitLines(text), 1, <<>>)

RenewalHits(text, key, dl) ==
  RenewalScan(SplitLines(text), key, dl, 1, found_renewal_section0, <<>>)

extract_advertisement_numbers(text) == Toks(AdvHits(text))

\* The three scanners that end with list(set(...)) return one of the orders.
extract_corrigenda_numbers(text) == ListOfSet(Range(Toks(CorrHits(text))))

extract_rc_numbers(text) == ListOfSet(Range(Toks(RCHits(text))))

extract_renewal_numbers(text, key, dl) ==
  ListOfSet(Range(Toks(RenewalHits(text, key, dl))))

(* ---------------------------- process_page ---------------------------- *)

EmptyNums ==
  [Advertisement |-> <<>>, Corrigenda |-> <<>>, RC |-> <<>>, Renewal |-> <<>>]

EmptySrc == [Advertisement |-> {}, Corrigenda |-> {}, RC |-> {}, Renewal |-> {}]

\* What process_page returns when the page raises.
NonePage == [none |-> TRUE, nums |-> EmptyNums, src |-> EmptySrc]

\* page.extract_text() or "": None and "" are the empty text.
TextOf(page) == IF page.x = "text" THEN page.text ELSE <<>>

\* The returns process_page can produce for a page: None when extract_text
\* raises, else the four lists (src: the lines each scanner took tokens from).
process_page(page, key, dl) ==
  IF page.x = "raises" THEN {NonePage}
  ELSE LET text == TextOf(page)
       IN {[none |-> FALSE,
            nums |-> [Advertisement |-> extract_advertisement_numbers(text),
                      Corrigenda |-> c, RC |-> r, Renewal |-> n],
            src |-> [Advertisement |-> LinesOf(AdvHits(text)),
                     Corrigenda |-> LinesOf(CorrHits(text)),
                     RC |-> LinesOf(RCHits(text)),
                     Renewal |-> LinesOf(RenewalHits(text, key, dl))]] :
             c \in extract_corrigenda_numbers(text),
             r \in extract_rc_numbers(text),
             n \in extract_renewal_numbers(text, key, dl)}

(* ----------------------------- process_pdf ---------------------------- *)

\* if (page_result := future.result()): results[category].extend(numbers)
MergeResult(res, r) ==
  IF r.none THEN res ELSE [c \in Categories |-> res[c] \o r.nums[c]]

IntLeq(a, b) == ToInt(a) <= ToInt(b)

\* Lexicographic order of two strings.
RECURSIVE StrLeq(_, _)
StrLeq(a, b) ==
  IF a = <<>> THEN TRUE
  ELSE IF b = <<>> THEN FALSE
  ELSE IF a[1] # b[1] THEN a[1] < b[1]
  ELSE StrLeq(Tail(a), Tail(b))

\* The order sorted uses: of the int() values under key=int, of the strings
\* without a key.
KeyLeq(key, a, b) == IF key = "int" THEN IntLeq(a, b) ELSE StrLeq(a, b)

\* sorted(s, key=...): Python's sort is stable.
sorted(s, key) ==
  LET Insert(t, x) ==
        LET pos == Cardinality({i \in DOMAIN t : KeyLeq(key, t[i], x)})
        IN SubSeq(t, 1, pos) \o <<x>> \o SubSeq(t, pos + 1, Len(t))
      F[i \in 0..Len(s)] == IF i = 0 THEN <<>> ELSE Insert(F[i - 1], s[i])
  IN F[Len(s)]

NonEmpty(n) == n # <<>>

NotDigit(n) == ~IsDigit(n)

\* sorted(numeric_strings, key=int) raises: some key cannot be computed.
SortRaises(numbers) ==
  \E i \in DOMAIN numbers : IsDigit(numbers[i]) /\ IntRaises(numbers[i])

\* One category's list after "Clean and sort results"; the list is empty when
\* the sort raises.
CleanSort(numbers) ==
  LET cleaned == SelectSeq(numbers, NonEmpty)
      numeric_strings == SelectSeq(cleaned, IsDigit)
      non_numeric_strings == SelectSeq(cleaned, NotDigit)
  IN IF SortRaises(numbers) THEN <<>>
     ELSE sorted(numeric_strings, "int") \o sorted(non_numeric_strings, "str")

final_results(res) == [c \in Categories |-> CleanSort(res[c])]

(* -------------------------------- inputs ------------------------------ *)

N12345 == <<1, 2, 3, 4, 5>>

N012345 == <<0, 1, 2, 3, 4, 5>>

N67890 == <<6, 7, 8, 9, 0>>

N98765 == <<9, 8, 7, 6, 5>>

N54321 == <<5, 4, 3, 2, 1>>

N11111 == <<1, 1, 1, 1, 1>>

N7 == <<7>>

AdvLine(n) == <<W("ADV"), Num(n), W("date")>>

CorrLine(n) == <<Num(n), W("hyphen")>>

KeyLine == <<W("Renewed"), W("TenYears")>>

AppNoLine == <<W("ApplicationNo"), NumX(N98765)>>

LineSet ==
  { AdvLine(N12345),
    <<W("CORRIGENDA"), Num(N54321), W("hyphen")>>,
    CorrLine(N67890),
    <<W("Registered")>>,
    <<Num(N12345), Num(N7), Num(N7), Num(N7), Num(N7)>>,
    KeyLine,
    <<W("Renewals")>>,
    AppNoLine }

SeqsUpTo(S, n) == UNION {[1..m -> S] : m \in 0..n}

KeyPhrases == {DefaultKeyPhrase, <<"Renewals">>, <<>>}

DigitLengths == {MinDigitLength} \cup (DefaultDigitLength..MaxDigitLength)

TextPage(text) == [x |-> "text", text |-> text]

PageSet ==
  { TextPage(<<AdvLine(N12345)>>),
    TextPage(<<<<Num(N012345), W("date")>>>>),
    TextPage(<<<<W("CORRIGENDA")>>, CorrLine(N67890), <<W("Registered")>>>>),
    TextPage(<<<<Num(N12345), Num(N7), Num(N7), Num(N7), Num(N7)>>, KeyLine, AppNoLine>>),
    TextPage(<<<<Num(N7), Num(N7), Num(N7), Num(N7), Sup>>>>),
    TextPage(<<>>),
    [x |-> "none", text |-> <<>>],
    [x |-> "raises", text |-> <<>>] }

(* ------------------------------- state -------------------------------- *)

Unset == [st |-> "unset", data |-> EmptyNums]

Pending == [st |-> "pending", res |-> NonePage]

NoExcel == [made |-> FALSE, sheets |-> EmptyNums]

Idle(p) ==
  /\ pdf = p
  /\ pc = "start"
  /\ futures = <<>>
  /\ merged = {}
  /\ results = EmptyNums
  /\ ret = Unset
  /\ errors = {}
  /\ tabs = [c \in Categories |-> ""]
  /\ excel = NoExcel

\* The two inputs of the Settings tab: their defaults, or any other values.
Settings ==
  \/ /\ key_phrase = DefaultKeyPhrase
     /\ digit_length = DefaultDigitLength
  \/ /\ key_phrase \in KeyPhrases
     /\ digit_length \in DigitLengths
     /\ <<key_phrase, digit_length>> # <<DefaultKeyPhrase, DefaultDigitLength>>

\* main, with a file uploaded and "Extract Data" pressed.
Init ==
  /\ Settings
  /\ \E p \in {[readable |-> FALSE, pages |-> <<>>]}
             \cup {[readable |-> TRUE, pages |-> ps] : ps \in SeqsUpTo(PageSet, MaxPages)} :
       Idle(p)

\* process_pdf up to the submission of the pages to the pool.
OpenPdf ==
  /\ pc = "start"
  /\ IF pdf.readable
     THEN /\ pc' = "pool"
          /\ futures' = [p \in 1..Len(pdf.pages) |-> Pending]
          /\ UNCHANGED <<ret, errors>>
     ELSE /\ pc' = "display"
          /\ ret' = [st |-> "none", data |-> EmptyNums]
          /\ errors' = errors \cup {"PDF processing failed"}
          /\ UNCHANGED futures
  /\ results' = EmptyNums
  /\ UNCHANGED <<key_phrase, digit_length, pdf, merged, tabs, excel>>

\* A pool worker runs process_page on page p.
ProcessPage(p) ==
  /\ pc = "pool"
  /\ p \in DOMAIN futures
  /\ futures[p].st = "pending"
  /\ \E r \in process_page(pdf.pages[p], key_phrase, digit_length) :
       /\ futures' = [futures EXCEPT ![p] = [st |-> "done", res |-> r]]
       /\ errors' = IF r.none THEN errors \cup {"Error processing page"} ELSE errors
  /\ UNCHANGED <<key_phrase, digit_length, pdf, pc, merged, results, ret, tabs, excel>>

\* as_completed yields the finished future of page p and the loop merges it.
Merge(p) ==
  /\ pc = "pool"
  /\ p \in DOMAIN futures
  /\ futures[p].st = "done"
  /\ p \notin merged
  /\ merged' = merged \cup {p}
  /\ results' = MergeResult(results, futures[p].res)
  /\ UNCHANGED <<key_phrase, digit_length, pdf, pc, futures, ret, errors, tabs, excel>>

\* Every future was merged: clean, sort, return final_results.
Clean ==
  /\ pc = "pool"
  /\ merged = DOMAIN futures
  /\ ret' = [st |-> "ok", data |-> final_results(results)]
  /\ errors' = IF \E c \in Categories : SortRaises(results[c])
               THEN errors \cup {"Error processing category"}
               ELSE errors
  /\ pc' = "display"
  /\ UNCHANGED <<key_phrase, digit_length, pdf, futures, merged, results, tabs, excel>>

\* The four result tabs of main.
Display ==
  /\ pc = "display"
  /\ tabs' = [c \in Categories |->
                IF ret.st = "ok"
                THEN IF ret.data[c] # <<>> THEN "found" ELSE "No numbers found"
                ELSE "No data available"]
  /\ pc' = "excel"
  /\ UNCHANGED <<key_phrase, digit_length, pdf, futures, merged, results, ret, errors, excel>>

\* excel_data = generate_excel(results): data.items() raises on None.
GenerateExcel ==
  /\ pc = "excel"
  /\ IF ret.st = "ok"
     THEN /\ excel' = [made |-> TRUE, sheets |-> ret.data]
          /\ pc' = "download"
          /\ UNCHANGED errors
     ELSE /\ pc' = "crashed"
          /\ errors' = errors \cup {"AttributeError"}
          /\ UNCHANGED excel
  /\ UNCHANGED <<key_phrase, digit_length, pdf, futures, merged, results, ret, tabs>>

\* st.download_button and the end of the script run.
Download ==
  /\ pc = "download"
  /\ pc' = "done"
  /\ UNCHANGED <<key_phrase, digit_length, pdf, futures, merged, results, ret, errors, tabs, excel>>

Next ==
  \/ OpenPdf
  \/ \E p \in DOMAIN futures : ProcessPage(p)
  \/ \E p \in DOMAIN futures : Merge(p)
  \/ Clean
  \/ Display
  \/ GenerateExcel
  \/ Download

Spec == Init /\ [][Next]_vars

\* One page on a worker: the scanners as functions of one text.
Submitted(pages) ==
  /\ pdf = [readable |-> TRUE, pages |-> pages]
  /\ pc = "pool"
  /\ futures = [p \in 1..Len(pages) |-> Pending]
  /\ merged = {}
  /\ results = EmptyNums
  /\ ret = Unset
  /\ errors = {}
  /\ tabs = [c \in Categories |-> ""]
  /\ excel = NoExcel

InitPage ==
  /\ Settings
  /\ \E text \in SeqsUpTo(LineSet, MaxLines) : Submitted(<<TextPage(text)>>)

NextPage == \E p \in DOMAIN futures : ProcessPage(p)

SpecPage == InitPage /\ [][NextPage]_vars

\* One page holding a text of the section-boundary shape: advertisement lines,
\* a CORRIGENDA line, corrigenda lines, a Registered line, all numbers distinct.
BoundaryNumbers == {N12345, N012345, N67890, N98765, N54321, N11111}

BoundaryText(advs, corrs) ==
  [i \in 1..Len(advs) |-> <<Num(advs[i]), W("date")>>]
    \o <<<<W("CORRIGENDA")>>>>
    \o [i \in 1..Len(corrs) |-> CorrLine(corrs[i])]
    \o <<<<W("Registered")>>>>

\* The key phrase is one that occurs on none of the four kinds of line.
InitBoundary ==
  /\ Settings
  /\ \A line \in {<<Num(N12345), W("date")>>, <<W("CORRIGENDA")>>,
                   CorrLine(N12345), <<W("Registered")>>} :
       ~PhraseIn(key_phrase, line)
  /\ \E a \in 0..MaxAdv, c \in 0..MaxCorr :
       \E ns \in [1..(a + c) -> BoundaryNumbers] :
         /\ \A i, j \in 1..(a + c) : ns[i] = ns[j] => i = j
         /\ Submitted(<<TextPage(BoundaryText(SubSeq(ns, 1, a), SubSeq(ns, a + 1, a + c)))>>)

SpecBoundary == InitBoundary /\ [][NextPage]_vars

(* ============================== claims =============================== *)

PageLines(p) == SplitLines(TextOf(pdf.pages[p]))

\* The least index of S, or one past the last line.
FirstOf(lines, S) ==
  IF S = {} THEN Len(lines) + 1 ELSE CHOOSE i \in S : \A j \in S : i <= j

FirstLine(lines, phrase) == FirstOf(lines, {i \in DOMAIN lines : PhraseIn(phrase, lines[i])})

Count(s, x) == Cardinality({i \in DOMAIN s : s[i] = x})

SortedByInt(s) == \A i, j \in DOMAIN s : i < j => ToInt(s[i]) <= ToInt(s[j])

Failing(page) == page.x \in {"raises", "none"} \/ page.text = <<>>

Returned == pc \in {"display", "excel", "download", "done", "crashed"}

\* C1: a page whose text extraction raises, or returns None or the empty
\* string, contributes no token to any category; merging a page never removes
\* a token merged before; process_pdf returns a result for every readable
\* document, and every token extracted from a page is in that result.
C1_FailingPagesHarmless ==
  /\ \A p \in DOMAIN futures :
       (futures[p].st = "done" /\ Failing(pdf.pages[p]))
         => \A c \in Categories : futures[p].res.nums[c] = <<>>
  /\ \A p \in merged : \A c \in Categories :
       Range(futures[p].res.nums[c]) \subseteq Range(results[c])
  /\ (pdf.readable /\ Returned)
       => /\ ret.st = "ok"
          /\ \A p \in DOMAIN futures : \A c \in Categories :
               Range(futures[p].res.nums[c]) \subseteq Range(ret.data[c])

\* What does hold of failing pages: they contribute nothing, merging never
\* removes a token, a readable document always gets a result, and a category
\* whose sort did not raise holds every token every page returned.
FailingPagesContributeNothing ==
  /\ \A p \in DOMAIN futures :
       (futures[p].st = "done" /\ Failing(pdf.pages[p]))
         => \A c \in Categories : futures[p].res.nums[c] = <<>>
  /\ \A p \in merged : \A c \in Categories :
       Range(futures[p].res.nums[c]) \subseteq Range(results[c])
  /\ (pdf.readable /\ Returned)
       => /\ ret.st = "ok"
          /\ \A p \in DOMAIN futures : \A c \in Categories :
               ~SortRaises(results[c])
                 => Range(futures[p].res.nums[c]) \subseteq Range(ret.data[c])

\* C2: every token of every category of the final result consists of digits
\* only and has at least digit_length digits.
C2_MinimumDigits ==
  ret.st = "ok"
    => \A c \in Categories : \A i \in DOMAIN ret.data[c] :
         IsDigit(ret.data[c][i]) /\ Len(ret.data[c][i]) >= digit_length

\* C3: every category's list of the final result is sorted ascending by
\* numeric value and holds no token twice.
C3_SortedDistinct ==
  ret.st = "ok"
    => \A c \in Categories :
         /\ SortedByInt(ret.data[c])
         /\ \A i, j \in DOMAIN ret.data[c] : ret.data[c][i] = ret.data[c][j] => i = j

\* The final result when the futures are merged in page order.
RECURSIVE MergeInPageOrder(_)
MergeInPageOrder(n) ==
  IF n = 0 THEN EmptyNums ELSE MergeResult(MergeInPageOrder(n - 1), futures[n].res)

\* C4: the final list of every category is the same list for every
\* order in which the pages complete and are merged, so it is the list that
\* merging in page order gives.
C4_SameListEveryOrder ==
  ret.st = "ok" => ret.data = final_results(MergeInPageOrder(Len(futures)))

\* What does hold of the final lists whatever the completion order: every
\* category whose sort did not raise holds exactly the tokens the pages
\* returned, each as often as they returned it, in ascending order of numeric
\* value.
SameTokensSameValues ==
  ret.st = "ok"
    => \A c \in {c \in Categories : ~SortRaises(results[c])} :
         /\ SortedByInt(ret.data[c])
         /\ \A x \in Range(ret.data[c]) \cup Range(MergeInPageOrder(Len(futures))[c]) :
              Count(ret.data[c], x) = Count(MergeInPageOrder(Len(futures))[c], x)

\* C5: for a text of advertisement lines, a CORRIGENDA line, corrigenda lines
\* and a Registered line, all numbers distinct and the renewal key phrase on
\* no line, Advertisement is exactly the advertisement numbers, Corrigenda
\* exactly the corrigenda numbers, RC and Renewal are empty.
C5_SectionBoundary ==
  \A p \in DOMAIN futures :
    futures[p].st = "done"
      => LET lines == PageLines(p)
             k == FirstLine(lines, CORRIGENDA)
             r == futures[p].res.nums
         IN /\ r.Advertisement = [i \in 1..(k - 1) |-> lines[i][1].d]
            /\ Range(r.Corrigenda) = {lines[i][1].d : i \in (k + 1)..(Len(lines) - 1)}
            /\ Len(r.Corrigenda) = Len(lines) - k - 1
            /\ r.RC = <<>>
            /\ r.Renewal = <<>>

C5_Witness ==
  /\ futures[1].st = "done"
  /\ key_phrase = DefaultKeyPhrase
  /\ Len(futures[1].res.nums.Advertisement) = 2
  /\ Len(futures[1].res.nums.Corrigenda) = 2

PairwiseDisjoint(src, cats) ==
  \A c1, c2 \in cats : c1 # c2 => src[c1] \cap src[c2] = {}

\* C6 as stated: the sets of lines the four scanners take tokens from are
\* pairwise disjoint.
C6_DisjointLines ==
  \A p \in DOMAIN futures :
    futures[p].st = "done" => PairwiseDisjoint(futures[p].res.src, Categories)

\* C6 amended: the sets of lines Advertisement, Corrigenda and RC take tokens
\* from are pairwise disjoint, and RC and Renewal share no line when the key
\* phrase contains the phrase that ends the RC scan, as the default does;
\* Renewal may share lines with Advertisement and Corrigenda.
C6_DisjointButRenewal ==
  \A p \in DOMAIN futures :
    futures[p].st = "done"
      => /\ PairwiseDisjoint(futures[p].res.src, {"Advertisement", "Corrigenda", "RC"})
         /\ Occurs(RenewedPhrase, key_phrase)
              => futures[p].res.src.RC \cap futures[p].res.src.Renewal = {}

C6_Witness ==
  /\ futures[1].st = "done"
  /\ key_phrase = DefaultKeyPhrase
  /\ futures[1].res.src.RC # {}
  /\ futures[1].res.src.Renewal # {}

\* C7: when the document cannot be opened the failure is reported, process_pdf
\* returns no result, no spreadsheet is produced, and the steps of main that
\* follow raise no further error.
C7_OpenFailureHandled ==
  (~pdf.readable /\ pc # "start")
    => /\ "PDF processing failed" \in errors
       /\ ret.st = "none"
       /\ ~excel.made
       /\ pc # "crashed"
       /\ errors \subseteq {"PDF processing failed"}

\* C8: RC takes tokens only from lines of exactly five all-numeric columns
\* that lie before the first line containing key_phrase, the line where
\* Renewal enters its section.
C8_RCBeforeKeyPhrase ==
  \A p \in DOMAIN futures :
    futures[p].st = "done"
      => LET lines == PageLines(p)
         IN \A i \in futures[p].res.src.RC :
              /\ Len(lines[i]) = RCColumns
              /\ \A j \in DOMAIN lines[i] : lines[i][j].k = "num"
              /\ i < FirstLine(lines, key_phrase)

\* The numbers C9 says Corrigenda returns: those followed by a dash on the
\* lines after the first CORRIGENDA line and before the next Registered line,
\* CORRIGENDA lines excluded.
ClaimedCorrigenda(lines) ==
  LET k == FirstLine(lines, CORRIGENDA)
      e == FirstOf(lines, {i \in DOMAIN lines : i > k /\ PhraseIn(RegisteredPhrase, lines[i])})
  IN UNION {Range(CorrMatches(lines[i])) :
              i \in {i \in DOMAIN lines : k < i /\ i < e /\ ~PhraseIn(CORRIGENDA, lines[i])}}

\* C9: Corrigenda goes Before-section, In-section, Done in that order only: a
\* Registered line before the first CORRIGENDA line does not end the scan.
C9_DoneOnlyFromInSection ==
  \A p \in DOMAIN futures :
    futures[p].st = "done"
      => Range(futures[p].res.nums.Corrigenda) = ClaimedCorrigenda(PageLines(p))

\* What a page contributes, said of its own lines alone.
OwnAdvertisement(lines) ==
  UNION {Range(AdvMatches(lines[i])) :
           i \in {i \in DOMAIN lines : i < FirstLine(lines, CORRIGENDA)}}

OwnCorrigenda(lines) ==
  LET k == FirstLine(lines, CORRIGENDA)
      e == FirstOf(lines, {i \in DOMAIN lines : /\ PhraseIn(RegisteredPhrase, lines[i])
                                                /\ ~PhraseIn(CORRIGENDA, lines[i])})
  IN UNION {Range(CorrMatches(lines[i])) :
              i \in {i \in DOMAIN lines : k < i /\ i < e /\ ~PhraseIn(CORRIGENDA, lines[i])}}

OwnRC(lines) ==
  UNION {{lines[i][j].d : j \in DOMAIN lines[i]} :
           i \in {i \in DOMAIN lines : i < FirstLine(lines, RenewedPhrase) /\ IsRCRow(lines[i])}}

OwnRenewal(lines, key, dl) ==
  UNION {Range(BareMatches(lines[i], dl)) \cup Range(AppNoMatches(lines[i], dl)) :
           i \in {i \in DOMAIN lines : i >= FirstLine(lines, key)}}

\* C10: every page is scanned from the scanners' initial states: what a page
\* contributes is decided by its own lines and the settings, whatever the
\* other pages hold and whichever of them were processed before it.
C10_OwnTextOnly ==
  \A p \in DOMAIN futures :
    (futures[p].st = "done" /\ pdf.pages[p].x # "raises")
      => LET lines == PageLines(p)
             r == futures[p].res.nums
         IN /\ Range(r.Advertisement) = OwnAdvertisement(lines)
            /\ Range(r.Corrigenda) = OwnCorrigenda(lines)
            /\ Range(r.RC) = OwnRC(lines)
            /\ Range(r.Renewal) = OwnRenewal(lines, key_phrase, digit_length)

C10_Witness ==
  /\ key_phrase = DefaultKeyPhrase
  /\ Len(futures) = 2
  /\ \E i \in DOMAIN pdf.pages[1].text : pdf.pages[1].text[i] = KeyLine
  /\ futures[1].st = "done"
  /\ futures[2].st = "done"
  /\ futures[2].res.nums.Advertisement # <<>>
  /\ futures[2].res.nums.Renewal = <<>>

====
